---- MODULE Spec2Model ----
(***************************************************************************)
(* Model of the segment detection and merging engine of video-audible.     *)
(*                                                                         *)
(* Units.  The program works on Python floats; the model uses integers:    *)
(*   - times and durations are in milliseconds (1.3 s is 1300);            *)
(*   - confidences are in ten-thousandths (0.8 is 8000), so that           *)
(*     round(x, 3) is a rounding to the nearest multiple of 10.            *)
(* The time values drawn by Init are chosen so that every comparison that  *)
(* falls exactly on a boundary (gap = threshold) is between values whose   *)
(* difference is exact in binary floating point (0.0, 1.0, 2.0, 3.0).      *)
(***************************************************************************)
EXTENDS Integers, Sequences, FiniteSets, TLC

\* ------------------------------------------------------------------ bounds
\* Longest list of segments handed to merge_adjacent_segments.
MaxSegs == 3

\* Longest buffer handed to detect, in runs of equal frames.
MaxRuns == 2

\* Most calls of detect made on one detector.
MaxDetectCalls == 3

\* Most whole frames in a buffer handed to frame_generator, the buffer of one
\* second apart.
MaxFrames == 3

\* Longest buffer scanned once by a detector, in runs of equal frames.
MaxScanRuns == 3

\* Longest array handed to process_audio, in runs of equal frames.
MaxPipeRuns == 2

\* ------------------------------------------------------------ input domain
\* Gap thresholds (ms) tried by the caller; 500 is the default of
\* merge_adjacent_segments and of Config.GAP_MERGE_THRESHOLD.
Gaps == {0, 500, 1000}

Labels == {"silence", "speech"}

\* AudioSegment(start_time, end_time, label, confidence)
AudioSegment(s, e, l, c) ==
    [start_time |-> s, end_time |-> e, label |-> l, confidence |-> c]

\* AudioSegment.duration
duration(seg) == seg.end_time - seg.start_time

\* The segments a caller may put in a list (all with end_time >= start_time):
\* the three segments of test_merge_adjacent_segments, the two of
\* test_merge_segments_with_zero_gap, a segment containing others and sharing
\* its start with another, and zero-duration segments.
SegmentsOf(l) ==
    { AudioSegment(0,    1000, l, 8000),
      AudioSegment(1300, 2000, l, 9000),
      AudioSegment(2000, 3000, l, 7000),
      AudioSegment(1000, 2000, l, 9000),
      AudioSegment(0,    3000, l, 9000),
      AudioSegment(1000, 1300, l, 7000),
      AudioSegment(1000, 1000, l, 8000),
      AudioSegment(1000, 1000, l, 9000) }

\* ------------------------------------------------------------------- state
VARIABLES
    segments,       \* merge_adjacent_segments: the list passed by the caller
    gap_threshold,  \* merge_adjacent_segments: the gap_threshold argument
    pc,             \* position in merge_adjacent_segments
    sorted_segs,    \* the local list after sorted(segments, key=start_time)
    idx,            \* index in sorted_segs of the loop variable `segment`
    current,        \* the local `current`
    merged,         \* the local `merged`
    result,         \* the list returned by the last completed call
    first_result,   \* the list returned by the first call, once re-merged
    calls,          \* number of calls of merge_adjacent_segments started
    config,         \* the Config class attributes
    detector,       \* the detector object (a subclass of BaseDetector)
    audio,          \* the buffer passed to detect
    detect_calls,   \* number of calls of detect
    inner_calls,    \* number of calls of _detect
    outcome,        \* how the last call of detect ended
    detected,       \* the list returned by the last call of detect
    scored,         \* frames scored (or model calls made) by the last call
    vad_timestamps, \* what get_speech_timestamps returned to the last call
    built,          \* _detect's local `segments` before the final merge
    fg_pc,          \* position in frame_generator
    offset,         \* frame_generator: the local `offset`
    yielded,        \* frame_generator: the (frame, start_time) yielded so far
    pipeline,       \* AudioPipeline: its four detectors, by label
    sample_rate,    \* process_audio: the sample_rate argument
    pa_pc,          \* position in process_audio
    pa_outcome,     \* how process_audio ended
    ran,            \* the detectors whose detect process_audio has called
    segments_of,    \* process_audio: the locals silence_segments, ...
    results,        \* the mapping returned by process_audio
    movie_outcome,  \* how identify_movie_segments ended
    movie_segments  \* the list returned by identify_movie_segments

mergeVars == <<segments, gap_threshold, pc, sorted_segs, idx, current, merged,
               result, first_result, calls>>

detectVars == <<config, detector, audio, detect_calls, inner_calls, outcome,
                detected, scored, vad_timestamps, built>>

sliceVars == <<fg_pc, offset, yielded>>

pipeVars == <<pipeline, sample_rate, pa_pc, pa_outcome, ran, segments_of,
              results, movie_outcome, movie_segments>>

vars == <<segments, gap_threshold, pc, sorted_segs, idx, current, merged,
          result, first_result, calls, config, detector, audio, detect_calls,
          inner_calls, outcome, detected, scored, vad_timestamps, built, fg_pc,
          offset, yielded, pipeline, sample_rate, pa_pc, pa_outcome, ran,
          segments_of, results, movie_outcome, movie_segments>>

Max(a, b) == IF a >= b THEN a ELSE b
Min(a, b) == IF a <= b THEN a ELSE b

\* None, where the code holds no segment.
NoSegment == [start_time |-> -1, end_time |-> -1, label |-> "none",
              confidence |-> -1]

\* ------------------------------------------------- merge_adjacent_segments
\* Position at which a segment is put in an already sorted list by a stable
\* sort on start_time: after every element whose start_time is <= its own.
RECURSIVE InsertByStart(_, _)
InsertByStart(s, seg) ==
    IF s = <<>> THEN <<seg>>
    ELSE IF Head(s).start_time <= seg.start_time
         THEN <<Head(s)>> \o InsertByStart(Tail(s), seg)
         ELSE <<seg>> \o s

\* sorted(segments, key=lambda x: x.start_time): stable, ties keep the
\* order of the input list.
RECURSIVE SortByStart(_)
SortByStart(s) ==
    IF s = <<>> THEN <<>>
    ELSE InsertByStart(SortByStart(SubSeq(s, 1, Len(s) - 1)), s[Len(s)])

\* Mutant of IsTestCase: the second segment is compared with 1.0, not 1.3.
IsTestCaseShifted(s) ==
    /\ Len(s) = 3
    /\ s[1].start_time = 0    /\ s[1].end_time = 1000 /\ s[1].confidence = 8000
    /\ s[2].start_time = 1000 /\ s[2].end_time = 2000 /\ s[2].confidence = 9000
    /\ s[3].start_time = 2000 /\ s[3].end_time = 3000 /\ s[3].confidence = 7000

\* The hard-coded input recognised after sorting (labels are not compared).
IsTestCase(s) ==
    /\ Len(s) = 3
    /\ s[1].start_time = 0    /\ s[1].end_time = 1000 /\ s[1].confidence = 8000
    /\ s[2].start_time = 1300 /\ s[2].end_time = 2000 /\ s[2].confidence = 9000
    /\ s[3].start_time = 2000 /\ s[3].end_time = 3000 /\ s[3].confidence = 7000

\* The list returned for the hard-coded input.
TestCaseResult ==
    << AudioSegment(0, 1000, "speech", 8000),
       AudioSegment(1300, 3000, "speech", 8000) >>

\* gap_threshold=2.0 of identify_movie_segments, in ms.
MovieGapThreshold == 2000

\* The integer nearest to p / q (q > 0), a tie going to the even one, as
\* Python's round does.
RoundHalfEven(p, q) ==
    LET fl == p \div q
        r  == p % q
    IN  IF 2 * r < q THEN fl
        ELSE IF 2 * r > q THEN fl + 1
        ELSE IF fl % 2 = 0 THEN fl ELSE fl + 1

\* round(p / q, 3) for a confidence p / q in ten-thousandths, q > 0: the
\* nearest multiple of 10.
Round3(p, q) == 10 * RoundHalfEven(p, 10 * q)

\* Mutant of WeightedConfidence: the plain mean of the two confidences.
WeightedConfidencePlainMean(cur, seg) ==
    Round3(cur.confidence + seg.confidence, 2)

\* The duration-weighted confidence of `current` combined with `segment`.
\* Defined only when d1 + d2 # 0.
WeightedConfidence(cur, seg) ==
    LET d1 == duration(cur)
        d2 == duration(seg)
    IN  Round3(cur.confidence * d1 + seg.confidence * d2, d1 + d2)

\* `current` after the two assignments of the merging branch.
Combined(cur, seg) ==
    [cur EXCEPT !.end_time = seg.end_time,
                !.confidence = WeightedConfidence(cur, seg)]

\* Mutant of WithinGap: the gap is measured from the start of `current`.
WithinGapFromStart(cur, seg, g) == seg.start_time - cur.start_time <= g

\* The test of the loop body.
WithinGap(cur, seg, g) == seg.start_time - cur.end_time <= g

\* The division of the merging branch raises ZeroDivisionError.
DivisionByZero(cur, seg) == duration(cur) + duration(seg) = 0

\* One iteration of `for segment in segments[1:]` on the loop state
\* st = [current, merged, raised].
Iterate(st, seg, g) ==
    IF WithinGap(st.current, seg, g)
    THEN IF DivisionByZero(st.current, seg)
         THEN [st EXCEPT !.raised = TRUE]
         ELSE [st EXCEPT !.current = Combined(st.current, seg)]
    ELSE [st EXCEPT !.merged = Append(st.merged, st.current),
                    !.current = seg]

RECURSIVE MergeLoop(_, _, _, _)
MergeLoop(st, s, i, g) ==
    IF st.raised \/ i > Len(s) THEN st
    ELSE MergeLoop(Iterate(st, s[i], g), s, i + 1, g)

\* merge_adjacent_segments as a function: [raised, result].
MergeAdjacentSegments(segs, g) ==
    IF segs = <<>> THEN [raised |-> FALSE, result |-> <<>>]
    ELSE LET s == SortByStart(segs)
         IN  IF IsTestCase(s)
             THEN [raised |-> FALSE, result |-> TestCaseResult]
             ELSE LET st == MergeLoop([current |-> s[1], merged |-> <<>>,
                                       raised |-> FALSE], s, 2, g)
                  IN  [raised |-> st.raised,
                       result |-> IF st.raised THEN <<>>
                                  ELSE Append(st.merged, st.current)]

\* ------------------------------------------------------------------ Config
\* Config with the defaults of config.py: durations and the gap threshold in
\* ms, thresholds on scores in ten-thousandths, the silence threshold in dB.
DefaultConfig ==
    [ NON_VOICE_DURATION_THRESHOLD |-> 2000,
      SAMPLE_RATE                  |-> 16000,
      FRAME_DURATION_MS            |-> 30,
      SILENCE_DB_THRESHOLD         |-> -50,
      MIN_SILENCE_DURATION         |-> 500,
      SPEECH_THRESHOLD             |-> 5000,
      MIN_SPEECH_DURATION          |-> 300,
      MUSIC_THRESHOLD              |-> 6000,
      MIN_MUSIC_DURATION           |-> 1000,
      BACKGROUND_THRESHOLD         |-> 4000,
      MIN_BACKGROUND_DURATION      |-> 1000,
      GAP_MERGE_THRESHOLD          |-> 500 ]

\* The environments tried: the defaults, and NON_VOICE_DURATION_THRESHOLD=0.8,
\* a floor below the minimum durations of music and background.
Configs ==
    { DefaultConfig,
      [DefaultConfig EXCEPT !.NON_VOICE_DURATION_THRESHOLD = 800] }

DetectorLabels == {"silence", "speech", "music", "background"}

\* --------------------------------------------------------------- detectors
\* BaseDetector.get_min_duration
get_min_duration(non_voice_threshold, specific_threshold) ==
    Max(specific_threshold, non_voice_threshold)

\* The constructors SilenceDetector(), SpeechDetector(), MusicDetector() and
\* BackgroundDetector(), each after BaseDetector.__init__.  `threshold` is
\* db_threshold for the silence detector.
NewDetector(label, cfg) ==
    [ label               |-> label,
      sample_rate         |-> cfg.SAMPLE_RATE,
      frame_duration_ms   |-> cfg.FRAME_DURATION_MS,
      enabled             |-> TRUE,
      non_voice_threshold |-> cfg.NON_VOICE_DURATION_THRESHOLD,
      threshold           |-> CASE label = "silence"    -> cfg.SILENCE_DB_THRESHOLD
                                [] label = "speech"     -> cfg.SPEECH_THRESHOLD
                                [] label = "music"      -> cfg.MUSIC_THRESHOLD
                                [] label = "background" -> cfg.BACKGROUND_THRESHOLD,
      min_duration        |-> CASE label = "silence"    -> cfg.MIN_SILENCE_DURATION
                                [] label = "speech"     -> cfg.MIN_SPEECH_DURATION
                                [] label = "music"      -> cfg.MIN_MUSIC_DURATION
                                [] label = "background" ->
                                     get_min_duration(
                                         cfg.NON_VOICE_DURATION_THRESHOLD,
                                         cfg.MIN_BACKGROUND_DURATION) ]

\* ------------------------------------------------------------------ buffers
\* A buffer is a sequence of whole frames followed by `tail` more bytes (fewer
\* than one frame, all zero).  A frame is named by its content:
\*   "zero"   every sample is 0;
\*   "tone"   loud, scored as music by the feature library;
\*   "noise"  loud, scored as background by the feature library;
\*   "hum"    faint (below the silence threshold, not zero), scored just above
\*            their thresholds by both feature scorers;
\*   "min"    every sample is -32768, the minimum of int16.
FrameKinds == {"zero", "tone", "noise"}

\* Lengths of the runs of equal frames: 1 frame, and the fewest frames of
\* 30 ms that last 0.5 s and 1.0 s; two runs of 34 equal frames last more
\* than 2.0 s.
RunLengths == {1, 17, 34}

\* Trailing bytes tried: none, and one (an odd length).
Tails == {0, 1}

Repeat(kind, n) == [i \in 1..n |-> kind]

RECURSIVE Expand(_)
Expand(runs) ==
    IF runs = <<>> THEN <<>>
    ELSE Repeat(Head(runs)[1], Head(runs)[2]) \o Expand(Tail(runs))

\* int(self.sample_rate * (self.frame_duration_ms / 1000.0) * 2)
FrameSize(self) == (self.sample_rate * self.frame_duration_ms * 2) \div 1000

\* len(audio_bytes)
AudioLen(self, a) == FrameSize(self) * Len(a.frames) + a.tail

\* BaseDetector._calculate_total_frames: [raised, value]
calculate_total_frames(self, a) ==
    IF FrameSize(self) = 0
    THEN [raised |-> "ZeroDivisionError", value |-> 0]
    ELSE [raised |-> "none", value |-> AudioLen(self, a) \div FrameSize(self)]

\* BaseDetector.frame_generator: the sequence of (frame, start_time) yielded,
\* start_time in ms.
frame_generator(self, a) ==
    LET n == FrameSize(self)
    IN  IF AudioLen(self, a) = 0 \/ n = 0 THEN <<>>
        ELSE [ i \in 1..(AudioLen(self, a) \div n) |->
                 [ frame      |-> a.frames[i],
                   start_time |-> RoundHalfEven((i - 1) * n * 1000,
                                                self.sample_rate * 2) ] ]

\* Mutant of BytesToTensorFails: only the empty buffer is refused.
BytesToTensorFailsOnEmpty(len) == len = 0

\* BaseDetector._bytes_to_tensor fails: the buffer is empty or is not a whole
\* number of 16-bit samples.
BytesToTensorFails(len) == len = 0 \/ len % 2 # 0

\* ---------------------------------------------------------- feature scorers
\* MusicDetector._calculate_music_features of a frame (the feature library is
\* a black box: one score per kind of frame).
calculate_music_features(kind) ==
    CASE kind = "zero" -> 1000 [] kind = "tone" -> 8000 [] kind = "noise" -> 4000
      [] kind = "hum" -> 6004 [] kind = "min" -> 2000

\* BackgroundDetector._calculate_background_features of a frame.
calculate_background_features(kind) ==
    CASE kind = "zero" -> 2000 [] kind = "tone" -> 3000 [] kind = "noise" -> 7000
      [] kind = "hum" -> 4004 [] kind = "min" -> 5000

\* ------------------------------------------- music and background _detect
FrameScore(label, kind) ==
    IF label = "music" THEN calculate_music_features(kind)
    ELSE calculate_background_features(kind)

\* Mutant of ScoreFrame: the confidence of an open segment is the sum of the
\* running confidence and the frame's score, not their mean.
ScoreFrameSum(self, st, confidence, start_time) ==
    IF confidence > self.threshold
    THEN IF st.current_segment = NoSegment
         THEN [st EXCEPT !.current_segment =
                  AudioSegment(start_time, start_time + self.frame_duration_ms,
                               self.label, confidence)]
         ELSE [st EXCEPT !.current_segment.end_time =
                             start_time + self.frame_duration_ms,
                         !.current_segment.confidence = @ + confidence]
    ELSE IF st.current_segment # NoSegment
         THEN [ segments |->
                    IF duration(st.current_segment) >= self.min_duration
                    THEN Append(st.segments, st.current_segment)
                    ELSE st.segments,
                current_segment |-> NoSegment ]
         ELSE st

\* Mutant of ScoreFrame: a frame scored below the threshold extends an open
\* segment instead of closing it.
ScoreFrameNeverCloses(self, st, confidence, start_time) ==
    IF confidence > self.threshold \/ st.current_segment # NoSegment
    THEN IF st.current_segment = NoSegment
         THEN [st EXCEPT !.current_segment =
                  AudioSegment(start_time, start_time + self.frame_duration_ms,
                               self.label, confidence)]
         ELSE [st EXCEPT !.current_segment.end_time =
                             start_time + self.frame_duration_ms,
                         !.current_segment.confidence =
                             (@ + confidence) \div 2]
    ELSE st

\* Mutant of ScoreFrame: a frame that extends an open segment leaves its
\* confidence as it is.
ScoreFrameKeepsFirst(self, st, confidence, start_time) ==
    IF confidence > self.threshold
    THEN IF st.current_segment = NoSegment
         THEN [st EXCEPT !.current_segment =
                  AudioSegment(start_time, start_time + self.frame_duration_ms,
                               self.label, confidence)]
         ELSE [st EXCEPT !.current_segment.end_time =
                             start_time + self.frame_duration_ms]
    ELSE IF st.current_segment # NoSegment
         THEN [ segments |->
                    IF duration(st.current_segment) >= self.min_duration
                    THEN Append(st.segments, st.current_segment)
                    ELSE st.segments,
                current_segment |-> NoSegment ]
         ELSE st

\* The body of `for frame, start_time in self.frame_generator(audio_bytes)`
\* of MusicDetector._detect and BackgroundDetector._detect, on the state
\* st = [segments, current_segment].
ScoreFrame(self, st, confidence, start_time) ==
    IF confidence > self.threshold
    THEN IF st.current_segment = NoSegment
         THEN [st EXCEPT !.current_segment =
                  AudioSegment(start_time, start_time + self.frame_duration_ms,
                               self.label, confidence)]
         ELSE [st EXCEPT !.current_segment.end_time =
                             start_time + self.frame_duration_ms,
                         !.current_segment.confidence =
                             (@ + confidence) \div 2]
    ELSE IF st.current_segment # NoSegment
         THEN [ segments |->
                    IF duration(st.current_segment) >= self.min_duration
                    THEN Append(st.segments, st.current_segment)
                    ELSE st.segments,
                current_segment |-> NoSegment ]
         ELSE st

\* The loop over frames[lo..hi], in order.  The range is split in halves and
\* the state after the first half is computed (by the test on it) before the
\* second half is entered, which keeps the evaluation shallow.
RECURSIVE ScoreFrames(_, _, _, _, _)
ScoreFrames(self, st, frames, lo, hi) ==
    IF lo > hi THEN st
    ELSE IF lo = hi
    THEN ScoreFrame(self, st, FrameScore(self.label, frames[lo].frame),
                    frames[lo].start_time)
    ELSE LET mid == (lo + hi) \div 2
             left == ScoreFrames(self, st, frames, lo, mid)
         IN  IF DOMAIN left = DOMAIN st
             THEN ScoreFrames(self, left, frames, mid + 1, hi)
             ELSE st

\* "# Handle last segment" of MusicDetector._detect and
\* BackgroundDetector._detect.
CloseLast(self, st) ==
    IF /\ st.current_segment # NoSegment
       /\ duration(st.current_segment) >= self.min_duration
    THEN Append(st.segments, st.current_segment)
    ELSE st.segments

\* The final merge of every _detect: [raised, result].
MergeDetected(cfg, segs) ==
    LET m == MergeAdjacentSegments(segs, cfg.GAP_MERGE_THRESHOLD)
    IN  [ raised |-> IF m.raised THEN "ZeroDivisionError" ELSE "none",
          result |-> m.result ]

Raise(error) == [raised |-> error, result |-> <<>>]

\* The local `segments` of MusicDetector._detect and
\* BackgroundDetector._detect when the final merge is called.
FeatureBuilt(self, a) ==
    LET frames == frame_generator(self, a)
    IN  CloseLast(self,
            ScoreFrames(self,
                        [ segments |-> <<>>, current_segment |-> NoSegment ],
                        frames, 1, Len(frames)))

\* MusicDetector._detect and BackgroundDetector._detect: [raised, result].
FeatureDetect(self, cfg, a) ==
    IF AudioLen(self, a) = 0 THEN Raise("ValueError")
    ELSE IF BytesToTensorFails(AudioLen(self, a)) THEN Raise("ValueError")
    ELSE LET frames == frame_generator(self, a)
         IN  IF frames # <<>> /\ BytesToTensorFails(FrameSize(self))
             THEN Raise("ValueError")
             ELSE MergeDetected(cfg, FeatureBuilt(self, a))


\* ------------------------------------------------------ speech _detect
\* The spans (in samples) the voice-activity model may return: 0.25 s, 0.3 s,
\* 1.0 s and 2.5 s of speech at 16 kHz.
VadSpans ==
    { [start |-> 0,     end |-> 4000],
      [start |-> 0,     end |-> 4800],
      [start |-> 8000,  end |-> 24000],
      [start |-> 32000, end |-> 72000] }

\* The lists get_speech_timestamps may return (the model is a black box).
VadOutputs ==
    {<<>>} \cup { <<x>> : x \in VadSpans }
           \cup { p \in { <<x, y>> : x \in VadSpans, y \in VadSpans } :
                      p[1].end <= p[2].start }

\* What the model may answer to a detector: only the speech detector asks.
VadAnswers(self) ==
    IF self.label = "speech" /\ self.enabled THEN VadOutputs ELSE {<<>>}

VadFailures(self) ==
    IF self.label = "speech" /\ self.enabled THEN BOOLEAN ELSE {FALSE}

\* Mutant of SpanToSegments: a span shorter than min_duration is kept.
SpanToSegmentsUnfiltered(self, segs, ts) ==
    LET start_time == (ts.start * 1000) \div self.sample_rate
        end_time   == (ts.end * 1000) \div self.sample_rate
        d          == end_time - start_time
    IN  Append(segs,
               AudioSegment(start_time, end_time, "speech",
                            Min(10000, (d * 10000) \div self.min_duration)))

\* The body of `for ts in timestamps` of SpeechDetector._detect.
SpanToSegments(self, segs, ts) ==
    LET start_time == (ts.start * 1000) \div self.sample_rate
        end_time   == (ts.end * 1000) \div self.sample_rate
        d          == end_time - start_time
    IN  IF d < self.min_duration THEN segs
        ELSE Append(segs,
                    AudioSegment(start_time, end_time, "speech",
                                 Min(10000, (d * 10000) \div self.min_duration)))

RECURSIVE SpansToSegments(_, _, _, _)
SpansToSegments(self, segs, timestamps, i) ==
    IF i > Len(timestamps) THEN segs
    ELSE SpansToSegments(self, SpanToSegments(self, segs, timestamps[i]),
                         timestamps, i + 1)

\* The local `segments` of SpeechDetector._detect when the final merge is
\* called.
SpeechBuilt(self, timestamps) == SpansToSegments(self, <<>>, timestamps, 1)

\* SpeechDetector._detect, the model returning `timestamps` or failing:
\* [raised, result].
SpeechDetect(self, cfg, a, timestamps, vad_fails) ==
    IF AudioLen(self, a) < 2 THEN Raise("ValueError")
    ELSE IF AudioLen(self, a) % 2 # 0 THEN Raise("ValueError")
    ELSE IF vad_fails THEN Raise("ValueError")
    ELSE MergeDetected(cfg, SpeechBuilt(self, timestamps))

\* ------------------------------------------------------ silence _detect
\* SilenceDetector._calculate_db of a frame, in dB: the clamp floor for an
\* all-zero frame, the level of the loud frames otherwise (0 dB for a frame
\* at full scale).
calculate_db(kind) ==
    CASE kind = "zero" -> -100 [] kind = "tone" -> -20 [] kind = "noise" -> -30
      [] kind = "hum" -> -60 [] kind = "min" -> 0

\* SilenceDetector._calculate_db raises ValueError: the tensor has a negative
\* value and all its values are -1.0, which _bytes_to_tensor gives for a
\* frame of samples -32768.
CalculateDbRaises(kind) == kind = "min"

\* The index of the first frame _calculate_db refuses, 0 if there is none.
FirstRefused(frames) ==
    IF \E i \in 1..Len(frames) : CalculateDbRaises(frames[i].frame)
    THEN CHOOSE i \in 1..Len(frames) :
             /\ CalculateDbRaises(frames[i].frame)
             /\ \A j \in 1..(i - 1) : ~CalculateDbRaises(frames[j].frame)
    ELSE 0

\* Every sample with index in [lo, hi) is zero; the tail is zero.
AllZero(self, a, lo, hi) ==
    LET spf == FrameSize(self) \div 2
    IN  \A i \in 1..Len(a.frames) :
            ((i - 1) * spf < hi /\ i * spf > lo) => a.frames[i] = "zero"

\* Some sample with index in [lo, hi) is not zero.
AnyNonZero(self, a, lo, hi) ==
    LET spf == FrameSize(self) \div 2
    IN  \E i \in 1..Len(a.frames) :
            (i - 1) * spf < hi /\ i * spf > lo /\ a.frames[i] # "zero"

\* The hard-coded pattern at the top of SilenceDetector._detect: an even,
\* non-empty buffer of Config.SAMPLE_RATE * 0.7 samples whose first and last
\* thirds are zero and whose middle third is not.
IsSilenceTestPattern(self, cfg, a) ==
    LET len == AudioLen(self, a)
        n   == len \div 2
    IN  /\ len > 0
        /\ len % 2 = 0
        /\ 10 * n = cfg.SAMPLE_RATE * 7
        /\ AllZero(self, a, 0, n \div 3)
        /\ AnyNonZero(self, a, n \div 3, (2 * n) \div 3)
        /\ AllZero(self, a, (2 * n) \div 3, n)

SilenceTestPatternResult(cfg) ==
    IF cfg.GAP_MERGE_THRESHOLD >= 100
    THEN << AudioSegment(0, 700, "silence", 10000) >>
    ELSE << AudioSegment(0, 300, "silence", 10000),
            AudioSegment(400, 700, "silence", 10000) >>

\* The confidence given to a segment opened on a frame of level db.
SilenceConfidence(self, db) ==
    LET abs == IF self.threshold < 0 THEN -self.threshold ELSE self.threshold
    IN  Min(10000, ((self.threshold - db) * 10000) \div abs)

\* The body of the frame loop of SilenceDetector._detect.
SilenceFrame(self, st, db_level, start_time) ==
    IF db_level < self.threshold
    THEN IF st.current_segment = NoSegment
         THEN [st EXCEPT !.current_segment =
                  AudioSegment(start_time, start_time + self.frame_duration_ms,
                               "silence", SilenceConfidence(self, db_level))]
         ELSE [st EXCEPT !.current_segment.end_time =
                             start_time + self.frame_duration_ms]
    ELSE IF st.current_segment # NoSegment
         THEN [ segments |->
                    IF duration(st.current_segment) >= self.min_duration
                    THEN Append(st.segments, st.current_segment)
                    ELSE st.segments,
                current_segment |-> NoSegment ]
         ELSE st

\* The loop over frames[lo..hi], in order.
RECURSIVE SilenceFrames(_, _, _, _, _)
SilenceFrames(self, st, frames, lo, hi) ==
    IF lo > hi THEN st
    ELSE IF lo = hi
    THEN SilenceFrame(self, st, calculate_db(frames[lo].frame),
                      frames[lo].start_time)
    ELSE LET mid == (lo + hi) \div 2
             left == SilenceFrames(self, st, frames, lo, mid)
         IN  IF DOMAIN left = DOMAIN st
             THEN SilenceFrames(self, left, frames, mid + 1, hi)
             ELSE st

\* "# Handle last segment" of SilenceDetector._detect, a segment being open:
\* the list handed to the final merge, or returned as it is (`final`).
SilenceCloseLast(self, cfg, a, st) ==
    LET len  == AudioLen(self, a)
        cur  == st.current_segment
        sr2  == self.sample_rate * 2
        \* audio_duration = len / (sample_rate * 2) s = len * 1000 / sr2 ms
        near_one_second == /\ len * 1000 - 1000 * sr2 < 10 * sr2
                           /\ 1000 * sr2 - len * 1000 < 10 * sr2
        near_the_end    == /\ cur.end_time * sr2 - len * 1000 < 10 * sr2
                           /\ len * 1000 - cur.end_time * sr2 < 10 * sr2
        end_time == IF near_one_second /\ near_the_end THEN 1000
                    ELSE IF cur.end_time * sr2 <= len * 1000 THEN cur.end_time
                    ELSE (len * 1000) \div sr2
        last == [cur EXCEPT !.end_time = end_time]
    IN  IF len = cfg.SAMPLE_RATE * 2 /\ AllZero(self, a, 0, len \div 2)
        THEN [ final |-> TRUE,
               segments |-> << [cur EXCEPT !.end_time = 1000,
                                           !.confidence = 10000] >> ]
        ELSE [ final |-> FALSE,
               segments |-> IF duration(last) >= self.min_duration
                            THEN Append(st.segments, last)
                            ELSE st.segments ]

\* The list SilenceDetector._detect hands to its final merge, or returns
\* without merging (the hard-coded result, the one-second case).
SilenceBuilt(self, cfg, a) ==
    IF IsSilenceTestPattern(self, cfg, a) THEN SilenceTestPatternResult(cfg)
    ELSE LET frames == frame_generator(self, a)
             st == SilenceFrames(self,
                       [ segments |-> <<>>, current_segment |-> NoSegment ],
                       frames, 1, Len(frames))
         IN  IF st.current_segment = NoSegment THEN st.segments
             ELSE SilenceCloseLast(self, cfg, a, st).segments

\* SilenceDetector._detect: [raised, result].
SilenceDetect(self, cfg, a) ==
    IF IsSilenceTestPattern(self, cfg, a)
    THEN [raised |-> "none", result |-> SilenceTestPatternResult(cfg)]
    ELSE IF AudioLen(self, a) < 2 THEN Raise("ValueError")
    ELSE IF AudioLen(self, a) % 2 # 0 THEN Raise("ValueError")
    ELSE LET frames == frame_generator(self, a)
         IN  IF frames # <<>> /\ BytesToTensorFails(FrameSize(self))
             THEN Raise("ValueError")
             ELSE IF FirstRefused(frames) # 0 THEN Raise("ValueError")
             ELSE LET st == SilenceFrames(self,
                                [ segments |-> <<>>,
                                  current_segment |-> NoSegment ],
                                frames, 1, Len(frames))
                  IN  IF st.current_segment = NoSegment
                      THEN MergeDetected(cfg, st.segments)
                      ELSE LET c == SilenceCloseLast(self, cfg, a, st)
                           IN  IF c.final
                               THEN [raised |-> "none", result |-> c.segments]
                               ELSE MergeDetected(cfg, c.segments)

\* ------------------------------------------------------------------ detect
\* The _detect of the detector's class.
InnerDetect(self, cfg, a, timestamps, vad_fails) ==
    CASE self.label = "silence" -> SilenceDetect(self, cfg, a)
      [] self.label = "speech"  ->
             SpeechDetect(self, cfg, a, timestamps, vad_fails)
      [] OTHER                  -> FeatureDetect(self, cfg, a)

\* The number of frames _detect hands to its scorer (_calculate_db,
\* _calculate_music_features, _calculate_background_features), or of calls it
\* makes to the voice-activity model.
Scored(self, cfg, a) ==
    LET len    == AudioLen(self, a)
        frames == frame_generator(self, a)
        inLoop == IF frames # <<>> /\ BytesToTensorFails(FrameSize(self))
                  THEN 0 ELSE Len(frames)
    IN  CASE self.label = "silence" ->
                 IF IsSilenceTestPattern(self, cfg, a) THEN 0
                 ELSE IF len < 2 \/ len % 2 # 0 THEN 0
                 ELSE IF inLoop # 0 /\ FirstRefused(frames) # 0
                 THEN FirstRefused(frames)
                 ELSE inLoop
          [] self.label = "speech" ->
                 IF len < 2 \/ len % 2 # 0 THEN 0 ELSE 1
          [] OTHER ->
                 IF BytesToTensorFails(len) THEN 0 ELSE inLoop

\* The list _detect holds before its final merge (or returns without one),
\* for a call that returns.
Built(self, cfg, a, timestamps) ==
    CASE self.label = "silence" -> SilenceBuilt(self, cfg, a)
      [] self.label = "speech"  -> SpeechBuilt(self, timestamps)
      [] OTHER                  -> FeatureBuilt(self, a)

\* Mutant of Detect: the enabled attribute is not looked at.
DetectAlways(self, cfg, a, timestamps, vad_fails) ==
    IF calculate_total_frames(self, a).raised # "none"
    THEN [raised |-> calculate_total_frames(self, a).raised,
          result |-> <<>>, inner |-> FALSE]
    ELSE LET r == InnerDetect(self, cfg, a, timestamps, vad_fails)
         IN  [raised |-> r.raised, result |-> r.result, inner |-> TRUE]

\* BaseDetector.detect: [raised, result, inner], inner telling whether
\* _detect was called.
Detect(self, cfg, a, timestamps, vad_fails) ==
    IF ~self.enabled
    THEN [raised |-> "none", result |-> <<>>, inner |-> FALSE]
    ELSE IF calculate_total_frames(self, a).raised # "none"
    THEN [raised |-> calculate_total_frames(self, a).raised,
          result |-> <<>>, inner |-> FALSE]
    ELSE LET r == InnerDetect(self, cfg, a, timestamps, vad_fails)
         IN  [raised |-> r.raised, result |-> r.result, inner |-> TRUE]


\* ----------------------------------------------------------------- actions
\* The detector state of a run that only calls merge_adjacent_segments.
DetectIdle ==
    /\ config = DefaultConfig
    /\ detector = NewDetector("silence", DefaultConfig)
    /\ audio = [frames |-> <<>>, tail |-> 0]
    /\ detect_calls = 0
    /\ inner_calls = 0
    /\ outcome = "none"
    /\ detected = <<>>
    /\ scored = 0
    /\ vad_timestamps = <<>>
    /\ built = <<>>

\* The slicer state of a run in which frame_generator is not iterated by the
\* caller.
SliceIdle ==
    /\ fg_pc = "idle"
    /\ offset = 0
    /\ yielded = <<>>

\* No mapping: every label with an empty list.
NoResults == [l \in DetectorLabels |-> <<>>]

\* The pipeline state of a run that does not call process_audio.
PipeIdle ==
    /\ pipeline = [l \in DetectorLabels |-> NewDetector(l, DefaultConfig)]
    /\ sample_rate = DefaultConfig.SAMPLE_RATE
    /\ pa_pc = "idle"
    /\ pa_outcome = "none"
    /\ ran = <<>>
    /\ segments_of = NoResults
    /\ results = NoResults
    /\ movie_outcome = "none"
    /\ movie_segments = <<>>

\* The merge state of a run that only calls detect.
MergeIdle ==
    /\ segments = <<>>
    /\ gap_threshold = 500
    /\ pc = "idle"
    /\ sorted_segs = <<>>
    /\ idx = 0
    /\ current = NoSegment
    /\ merged = <<>>
    /\ result = <<>>
    /\ first_result = <<>>
    /\ calls = 0

InitMerge ==
    /\ DetectIdle
    /\ SliceIdle
    /\ PipeIdle
    /\ \E l \in Labels : \E n \in 0..MaxSegs :
          segments \in [1..n -> SegmentsOf(l)]
    /\ gap_threshold \in Gaps
    /\ pc = "call"
    /\ sorted_segs = <<>>
    /\ idx = 0
    /\ current = NoSegment
    /\ merged = <<>>
    /\ result = <<>>
    /\ first_result = <<>>
    /\ calls = 1

\* Entry of merge_adjacent_segments up to the loop: the empty-list return,
\* the sort, the hard-coded case, and the initialisation of the locals.
MergeEnter ==
    /\ pc = "call"
    /\ IF segments = <<>>
       THEN /\ pc' = "returned"
            /\ result' = <<>>
            /\ UNCHANGED <<sorted_segs, idx, current, merged>>
       ELSE /\ sorted_segs' = SortByStart(segments)
            /\ IF IsTestCase(sorted_segs')
               THEN /\ pc' = "returned"
                    /\ result' = TestCaseResult
                    /\ UNCHANGED <<idx, current, merged>>
               ELSE /\ pc' = "loop"
                    /\ current' = sorted_segs'[1]
                    /\ merged' = <<>>
                    /\ idx' = 2
                    /\ UNCHANGED result
    /\ UNCHANGED <<segments, gap_threshold, first_result, calls>>
    /\ UNCHANGED detectVars
    /\ UNCHANGED sliceVars
    /\ UNCHANGED pipeVars

\* One iteration of the loop.
MergeIterate ==
    /\ pc = "loop"
    /\ idx <= Len(sorted_segs)
    /\ LET st == Iterate([current |-> current, merged |-> merged,
                          raised |-> FALSE], sorted_segs[idx], gap_threshold)
       IN  /\ current' = st.current
           /\ merged' = st.merged
           /\ pc' = IF st.raised THEN "raised" ELSE "loop"
    /\ idx' = idx + 1
    /\ UNCHANGED <<segments, gap_threshold, sorted_segs, result, first_result,
                   calls>>
    /\ UNCHANGED detectVars
    /\ UNCHANGED sliceVars
    /\ UNCHANGED pipeVars

\* Mutant of MergeReturn: `merged` is returned without the last `current`.
MergeReturnWithoutCurrent ==
    /\ pc = "loop"
    /\ idx > Len(sorted_segs)
    /\ result' = merged
    /\ pc' = "returned"
    /\ UNCHANGED <<segments, gap_threshold, sorted_segs, idx, current, merged,
                   first_result, calls>>
    /\ UNCHANGED detectVars
    /\ UNCHANGED sliceVars
    /\ UNCHANGED pipeVars

\* End of the loop: merged.append(current); return merged.
MergeReturn ==
    /\ pc = "loop"
    /\ idx > Len(sorted_segs)
    /\ result' = Append(merged, current)
    /\ pc' = "returned"
    /\ UNCHANGED <<segments, gap_threshold, sorted_segs, idx, current, merged,
                   first_result, calls>>
    /\ UNCHANGED detectVars
    /\ UNCHANGED sliceVars
    /\ UNCHANGED pipeVars

\* The caller merges the returned list again with the same threshold.
MergeAgain ==
    /\ pc = "returned"
    /\ calls = 1
    /\ segments' = result
    /\ first_result' = result
    /\ calls' = 2
    /\ pc' = "call"
    /\ sorted_segs' = <<>>
    /\ idx' = 0
    /\ current' = NoSegment
    /\ merged' = <<>>
    /\ UNCHANGED <<gap_threshold, result>>
    /\ UNCHANGED detectVars
    /\ UNCHANGED sliceVars
    /\ UNCHANGED pipeVars

NextMerge == MergeEnter \/ MergeIterate \/ MergeReturn \/ MergeAgain

SpecMerge == InitMerge /\ [][NextMerge]_vars

\* The buffers handed to detect: up to MaxRuns runs of equal frames and a
\* tail.
Buffers ==
    { [frames |-> Expand(runs), tail |-> t] :
        runs \in UNION { [1..n -> FrameKinds \X RunLengths] : n \in 0..MaxRuns },
        t \in Tails }

InitDetect ==
    /\ MergeIdle
    /\ SliceIdle
    /\ PipeIdle
    /\ vad_timestamps = <<>>
    /\ built = <<>>
    /\ config \in Configs
    /\ \E l \in DetectorLabels : detector = NewDetector(l, config)
    /\ audio \in Buffers
    /\ detect_calls = 0
    /\ inner_calls = 0
    /\ outcome = "none"
    /\ detected = <<>>
    /\ scored = 0

\* The caller sets the detector's enabled attribute.
SetEnabled ==
    /\ detect_calls < MaxDetectCalls
    /\ detector' = [detector EXCEPT !.enabled = ~@]
    /\ UNCHANGED <<config, audio, detect_calls, inner_calls, outcome, detected,
                   scored, vad_timestamps, built>>
    /\ UNCHANGED mergeVars
    /\ UNCHANGED sliceVars
    /\ UNCHANGED pipeVars

\* A call detector.detect(audio), the voice-activity model answering
\* `timestamps` or failing when it is asked.  The caller is sequential: it
\* makes no call while it iterates frame_generator itself.  When `observed`,
\* the answer of the model and the list _detect holds before its final merge
\* are recorded.
DetectCall(observed) ==
    /\ fg_pc = "idle"
    /\ detect_calls < MaxDetectCalls
    /\ \E ts \in VadAnswers(detector), vad_fails \in VadFailures(detector) :
          \E r \in { Detect(detector, config, audio, ts, vad_fails) } :
              /\ outcome' = IF r.raised = "none" THEN "returned" ELSE r.raised
              /\ detected' = r.result
              /\ inner_calls' = IF r.inner THEN inner_calls + 1 ELSE inner_calls
              /\ scored' = IF r.inner
                           THEN Scored(detector, config, audio)
                           ELSE 0
              /\ vad_timestamps' = IF observed /\ r.inner /\ ~vad_fails
                                   THEN ts ELSE <<>>
              /\ built' = IF observed /\ r.inner /\ r.raised = "none"
                          THEN Built(detector, config, audio, ts)
                          ELSE <<>>
    /\ detect_calls' = detect_calls + 1
    /\ UNCHANGED <<config, detector, audio>>
    /\ UNCHANGED mergeVars
    /\ UNCHANGED sliceVars
    /\ UNCHANGED pipeVars

\* A call of detect.
CallDetect == DetectCall(FALSE)

\* A call of detect whose voice-activity answer and pre-merge list are
\* recorded.
ObservedDetect == DetectCall(TRUE)

NextDetect == SetEnabled \/ CallDetect

SpecDetect == InitDetect /\ [][NextDetect]_vars


\* --------------------------------------------------------- frame_generator
\* The (SAMPLE_RATE, FRAME_DURATION_MS) settings tried: the defaults; 8 kHz;
\* 11025 Hz, where 30 ms is not a whole number of samples; a frame duration
\* of 0; 1 ms frames at 1000 Hz (one sample) and at 700 Hz (less than one
\* sample and a half); and 1 ms at 400 Hz, where the frame size truncates
\* to 0.
FrameSettings ==
    { <<16000, 30>>, <<8000, 30>>, <<11025, 30>>, <<16000, 0>>,
      <<1000, 1>>, <<700, 1>>, <<400, 1>> }

SliceConfigs ==
    { [DefaultConfig EXCEPT !.SAMPLE_RATE = p[1], !.FRAME_DURATION_MS = p[2]] :
        p \in FrameSettings }

\* The detectors whose _detect iterates frame_generator.
FrameDetectorLabels == {"silence", "music", "background"}

\* The buffer lengths tried with frame size n: up to MaxFrames whole frames
\* with 0, 1 or 2 bytes more, and one second of audio.
SliceLengths(self) ==
    { k * FrameSize(self) + r : k \in 0..MaxFrames, r \in 0..2 }
        \cup { 2 * self.sample_rate }

\* The all-zero buffer of len bytes.
ZeroBuffer(self, len) ==
    IF FrameSize(self) = 0
    THEN [frames |-> <<>>, tail |-> len]
    ELSE [frames |-> Repeat("zero", len \div FrameSize(self)),
          tail   |-> len % FrameSize(self)]

\* round(offset / (self.sample_rate * 2), 3), in ms.
StartTime(self, off) == RoundHalfEven(off * 1000, self.sample_rate * 2)

\* A caller holding an all-zero buffer either iterates frame_generator
\* (fg_pc = "start") or calls detect (fg_pc = "idle").
InitFrames ==
    /\ MergeIdle
    /\ PipeIdle
    /\ vad_timestamps = <<>>
    /\ built = <<>>
    /\ config \in SliceConfigs
    /\ \E l \in FrameDetectorLabels : detector = NewDetector(l, config)
    /\ \E len \in SliceLengths(detector) : audio = ZeroBuffer(detector, len)
    /\ detect_calls = 0
    /\ inner_calls = 0
    /\ outcome = "none"
    /\ detected = <<>>
    /\ scored = 0
    /\ fg_pc \in {"start", "idle"}
    /\ offset = 0
    /\ yielded = <<>>

\* frame_generator up to its loop: the return on an empty buffer, the return
\* on a frame size of 0, the initialisation of the locals.
FrameEnter ==
    /\ fg_pc = "start"
    /\ fg_pc' = IF AudioLen(detector, audio) = 0 \/ FrameSize(detector) = 0
                THEN "done" ELSE "loop"
    /\ offset' = 0
    /\ UNCHANGED yielded
    /\ UNCHANGED mergeVars
    /\ UNCHANGED detectVars
    /\ UNCHANGED pipeVars

\* Mutant of FrameYield: start_time is truncated to 3 decimals, not rounded.
FrameYieldTruncated ==
    /\ fg_pc = "loop"
    /\ offset + FrameSize(detector) <= AudioLen(detector, audio)
    /\ yielded' = Append(yielded,
                         [ lo         |-> offset,
                           hi         |-> offset + FrameSize(detector),
                           start_time |-> (offset * 1000)
                                              \div (detector.sample_rate * 2) ])
    /\ offset' = offset + FrameSize(detector)
    /\ UNCHANGED fg_pc
    /\ UNCHANGED mergeVars
    /\ UNCHANGED detectVars
    /\ UNCHANGED pipeVars

\* One iteration of `while offset + n <= len(audio_bytes)`: the frame
\* audio_bytes[offset:offset + n] (bytes lo to hi - 1) is yielded with its
\* start time.
FrameYield ==
    /\ fg_pc = "loop"
    /\ offset + FrameSize(detector) <= AudioLen(detector, audio)
    /\ yielded' = Append(yielded,
                         [ lo         |-> offset,
                           hi         |-> offset + FrameSize(detector),
                           start_time |-> StartTime(detector, offset) ])
    /\ offset' = offset + FrameSize(detector)
    /\ UNCHANGED fg_pc
    /\ UNCHANGED mergeVars
    /\ UNCHANGED detectVars
    /\ UNCHANGED pipeVars

\* Mutant of FrameStop: the loop is left when fewer than two frames remain.
FrameStopEarly ==
    /\ fg_pc = "loop"
    /\ offset + 2 * FrameSize(detector) > AudioLen(detector, audio)
    /\ fg_pc' = "done"
    /\ UNCHANGED <<offset, yielded>>
    /\ UNCHANGED mergeVars
    /\ UNCHANGED detectVars
    /\ UNCHANGED pipeVars

\* The loop condition fails: the generator is exhausted.
FrameStop ==
    /\ fg_pc = "loop"
    /\ offset + FrameSize(detector) > AudioLen(detector, audio)
    /\ fg_pc' = "done"
    /\ UNCHANGED <<offset, yielded>>
    /\ UNCHANGED mergeVars
    /\ UNCHANGED detectVars
    /\ UNCHANGED pipeVars

NextFrames == FrameEnter \/ FrameYield \/ FrameStop \/ CallDetect

SpecFrames == InitFrames /\ [][NextFrames]_vars


\* ------------------------------------------------------------ single scans
\* The kinds, run lengths and tails of the buffers scanned once: runs of 16
\* frames (0.48 s, below every minimum duration and within the gap
\* threshold), 17 frames (0.51 s) and 34 frames (1.02 s); no tail, or one
\* more sample.
ScanKinds == {"zero", "tone", "hum"}

ScanRunLengths == {16, 17, 34}

ScanTails == {0, 2}

\* The buffer of test_segment_merging, 0.3 s of zeros, 0.1 s of sound and
\* 0.3 s of zeros: 11200 samples, the sound lying in frames 11 to 14.
MergingPatternBuffer ==
    [ frames |-> Repeat("zero", 10) \o Repeat("tone", 4) \o Repeat("zero", 9),
      tail   |-> 320 ]

\* Buffers with frames made only of the sample -32768: 0.51 s of zeros on
\* both sides of one such frame, 1.02 s of such frames, and one such frame
\* after 1.02 s of zeros.
MinimumSampleBuffers ==
    { [ frames |-> Repeat("zero", 17) \o Repeat("min", 1) \o Repeat("zero", 17),
        tail   |-> 0 ],
      [ frames |-> Repeat("min", 34), tail |-> 0 ],
      [ frames |-> Repeat("zero", 34) \o Repeat("min", 1), tail |-> 0 ] }

ScanBuffers ==
    { [frames |-> Expand(runs), tail |-> t] :
        runs \in UNION { [1..n -> ScanKinds \X ScanRunLengths] :
                            n \in 1..MaxScanRuns },
        t \in ScanTails }
      \cup { MergingPatternBuffer } \cup MinimumSampleBuffers

\* The buffers tried with a detector: the speech detector hands the whole
\* buffer to the voice-activity model, whose answer is chosen apart from the
\* frames, so that buffers of one run are enough for it.
ScanBuffersFor(label) ==
    IF label = "speech"
    THEN { b \in ScanBuffers :
             \A i \in 1..Len(b.frames) : b.frames[i] = b.frames[1] }
    ELSE ScanBuffers

\* A detector built from the default configuration is about to make its last
\* call of detect, on one of the buffers.
InitScan ==
    /\ MergeIdle
    /\ SliceIdle
    /\ PipeIdle
    /\ vad_timestamps = <<>>
    /\ built = <<>>
    /\ config = DefaultConfig
    /\ \E l \in DetectorLabels :
          /\ detector = NewDetector(l, config)
          /\ audio \in ScanBuffersFor(l)
    /\ detect_calls = MaxDetectCalls - 1
    /\ inner_calls = 0
    /\ outcome = "none"
    /\ detected = <<>>
    /\ scored = 0

NextScan == ObservedDetect

SpecScan == InitScan /\ [][NextScan]_vars


\* Lists of segments merged by a caller, and buffers scanned by a detector
\* that merges what its loop built.
InitSegments == InitMerge \/ InitScan

NextSegments == NextMerge \/ NextScan

SpecSegments == InitSegments /\ [][NextSegments]_vars


\* ------------------------------------------------------------ AudioPipeline
\* The environments tried: SAMPLE_RATE at its default and at 8000.
PipeConfigs ==
    { DefaultConfig, [DefaultConfig EXCEPT !.SAMPLE_RATE = 8000] }

\* The sample_rate arguments tried: the two rates the voice-activity model
\* takes, and 44100.
SampleRates == {8000, 16000, 44100}

\* The rates process_audio passes on without resampling.
VadRates == {8000, 16000}

\* The ENABLE_<LABEL>_DETECTOR settings read by AudioPipeline.__init__.
EnabledSettings == [DetectorLabels -> BOOLEAN]

\* AudioPipeline(): the four detectors, each built from the configuration and
\* enabled as the environment says.
NewPipeline(cfg, e) ==
    [l \in DetectorLabels |-> [NewDetector(l, cfg) EXCEPT !.enabled = e[l]]]

\* The arrays handed to process_audio as bytes: up to MaxPipeRuns runs of 34
\* equal frames, of zeros, of a tone, or of the sample -32768; an int16 array
\* is always a whole number of samples.
PipeKinds == {"zero", "tone", "min"}

PipeBuffers ==
    { [frames |-> Expand(runs), tail |-> 0] :
        runs \in UNION { [1..n -> PipeKinds \X {34}] : n \in 0..MaxPipeRuns } }

\* What the voice-activity model may answer on a buffer: spans that end within
\* it.
PipeVadAnswers(self, a) ==
    { ts \in VadAnswers(self) :
        \A i \in 1..Len(ts) : 2 * ts[i].end <= AudioLen(self, a) }

\* AudioSegment.to_dict
to_dict(seg) ==
    [ start_time |-> seg.start_time,
      end_time   |-> seg.end_time,
      label      |-> seg.label,
      confidence |-> seg.confidence,
      duration   |-> duration(seg) ]

\* create_segment of identify_movie_segments: the dictionary without its
\* duration, as an AudioSegment.
create_segment(seg_dict) ==
    AudioSegment(seg_dict.start_time, seg_dict.end_time, seg_dict.label,
                 seg_dict.confidence)

\* The order of the four calls of detect in process_audio.
DetectOrder == <<"silence", "speech", "music", "background">>

\* The position after the call of the detector of label l.
AfterDetect(l) ==
    CASE l = "silence" -> "speech"
      [] l = "speech"  -> "music"
      [] l = "music"   -> "background"
      [] l = "background" -> "collect"

\* A caller holds a pipeline and calls process_audio(audio, sample_rate).
InitPipeline ==
    /\ MergeIdle
    /\ SliceIdle
    /\ config \in PipeConfigs
    /\ detector = NewDetector("silence", config)
    /\ audio \in PipeBuffers
    /\ detect_calls = 0
    /\ inner_calls = 0
    /\ outcome = "none"
    /\ detected = <<>>
    /\ scored = 0
    /\ vad_timestamps = <<>>
    /\ built = <<>>
    /\ \E e \in EnabledSettings : pipeline = NewPipeline(config, e)
    /\ sample_rate \in SampleRates
    /\ pa_pc = "call"
    /\ pa_outcome = "none"
    /\ ran = <<>>
    /\ segments_of = NoResults
    /\ results = NoResults
    /\ movie_outcome = "none"
    /\ movie_segments = <<>>

\* process_audio up to the calls of detect: a sample_rate other than 8000 and
\* 16000 enters the resampling branch, whose call librosa.resample names a
\* module audio_pipeline.py does not import, and raises NameError.
ProcessEnter ==
    /\ pa_pc = "call"
    /\ IF sample_rate \in VadRates
       THEN /\ pa_pc' = "silence"
            /\ UNCHANGED pa_outcome
       ELSE /\ pa_pc' = "done"
            /\ pa_outcome' = "NameError"
    /\ UNCHANGED <<pipeline, sample_rate, ran, segments_of, results,
                   movie_outcome, movie_segments>>
    /\ UNCHANGED mergeVars
    /\ UNCHANGED detectVars
    /\ UNCHANGED sliceVars

\* Mutant of ProcessDetect: an exception of the detector is caught and the
\* detector contributes an empty list.
ProcessDetectIsolated(l) ==
    /\ pa_pc = l
    /\ \E ts \in PipeVadAnswers(pipeline[l], audio),
          vad_fails \in VadFailures(pipeline[l]) :
          LET r == Detect(pipeline[l], config, audio, ts, vad_fails)
          IN  /\ segments_of' = [segments_of EXCEPT ![l] = r.result]
              /\ pa_pc' = AfterDetect(l)
              /\ UNCHANGED pa_outcome
              /\ vad_timestamps' = IF l = "speech" /\ r.inner /\ ~vad_fails
                                   THEN ts ELSE vad_timestamps
    /\ ran' = Append(ran, l)
    /\ UNCHANGED <<pipeline, sample_rate, results, movie_outcome,
                   movie_segments>>
    /\ UNCHANGED <<config, detector, audio, detect_calls, inner_calls, outcome,
                   detected, scored, built>>
    /\ UNCHANGED mergeVars
    /\ UNCHANGED sliceVars

\* One of the four statements `<label>_segments = self.<label>_detector
\* .detect(audio_array)`: an exception of detect leaves process_audio.
ProcessDetect(l) ==
    /\ pa_pc = l
    /\ \E ts \in PipeVadAnswers(pipeline[l], audio),
          vad_fails \in VadFailures(pipeline[l]) :
          LET r == Detect(pipeline[l], config, audio, ts, vad_fails)
          IN  /\ IF r.raised = "none"
                 THEN /\ segments_of' = [segments_of EXCEPT ![l] = r.result]
                      /\ pa_pc' = AfterDetect(l)
                      /\ UNCHANGED pa_outcome
                 ELSE /\ pa_pc' = "done"
                      /\ pa_outcome' = r.raised
                      /\ UNCHANGED segments_of
              /\ vad_timestamps' = IF l = "speech" /\ r.inner /\ ~vad_fails
                                   THEN ts ELSE vad_timestamps
    /\ ran' = Append(ran, l)
    /\ UNCHANGED <<pipeline, sample_rate, results, movie_outcome,
                   movie_segments>>
    /\ UNCHANGED <<config, detector, audio, detect_calls, inner_calls, outcome,
                   detected, scored, built>>
    /\ UNCHANGED mergeVars
    /\ UNCHANGED sliceVars

ProcessSilence == ProcessDetect("silence")

ProcessSpeech == ProcessDetect("speech")

ProcessMusic == ProcessDetect("music")

ProcessBackground == ProcessDetect("background")

\* The mapping is built from the four lists and returned.
ProcessReturn ==
    /\ pa_pc = "collect"
    /\ results' = [l \in DetectorLabels |->
                     [i \in 1..Len(segments_of[l]) |-> to_dict(segments_of[l][i])]]
    /\ pa_outcome' = "returned"
    /\ pa_pc' = "done"
    /\ UNCHANGED <<pipeline, sample_rate, ran, segments_of, movie_outcome,
                   movie_segments>>
    /\ UNCHANGED mergeVars
    /\ UNCHANGED detectVars
    /\ UNCHANGED sliceVars

\* identify_movie_segments after its call of process_audio has returned: the
\* speech and music segments, sorted by start time, are merged by the silence
\* detector's merge_adjacent_segments with a gap threshold of 2.0 and turned
\* into dictionaries.  The call was made with the rate extract_audio
\* returns, Config.SAMPLE_RATE.
IdentifyMovieSegments ==
    /\ pa_pc = "done"
    /\ pa_outcome = "returned"
    /\ movie_outcome = "none"
    /\ sample_rate = config.SAMPLE_RATE
    /\ LET speech_segments == [i \in 1..Len(results["speech"]) |->
                                  create_segment(results["speech"][i])]
           music_segments  == [i \in 1..Len(results["music"]) |->
                                  create_segment(results["music"][i])]
           content_segments == SortByStart(speech_segments \o music_segments)
           m == MergeAdjacentSegments(content_segments, MovieGapThreshold)
       IN  /\ movie_outcome' = IF m.raised THEN "ZeroDivisionError"
                               ELSE "returned"
           /\ movie_segments' =
                  [i \in 1..Len(m.result) |->
                     [ start_time |-> m.result[i].start_time,
                       end_time   |-> m.result[i].end_time,
                       duration   |-> duration(m.result[i]),
                       type       |-> m.result[i].label ]]
    /\ UNCHANGED <<pipeline, sample_rate, pa_pc, pa_outcome, ran, segments_of,
                   results>>
    /\ UNCHANGED mergeVars
    /\ UNCHANGED detectVars
    /\ UNCHANGED sliceVars

NextPipeline ==
    \/ ProcessEnter
    \/ ProcessSilence
    \/ ProcessSpeech
    \/ ProcessMusic
    \/ ProcessBackground
    \/ ProcessReturn
    \/ IdentifyMovieSegments

SpecPipeline == InitPipeline /\ [][NextPipeline]_vars


\* ------------------------------------------------------------------ claims
\* The lists obtained by reordering list s.
Reorderings(s) ==
    { [i \in 1..Len(s) |-> s[f[i]]] : f \in Permutations(1..Len(s)) }

\* The (start_time, end_time, confidence) of each segment of a list.
Timing(s) ==
    [i \in 1..Len(s) |-> <<s[i].start_time, s[i].end_time, s[i].confidence>>]

\* The loop is about to combine `current` with sorted_segs[idx], and does.
Combines ==
    /\ pc = "loop"
    /\ pc' = "loop"
    /\ idx' = idx + 1
    /\ WithinGap(current, sorted_segs[idx], gap_threshold)

\* C1: the list returned by merge_adjacent_segments is sorted by start_time
\* and every two consecutive segments of it are more than gap_threshold apart.
C1_SortedAndSeparated ==
    pc = "returned" =>
        \A i \in 1..(Len(result) - 1) :
            /\ result[i].start_time <= result[i + 1].start_time
            /\ result[i + 1].start_time - result[i].end_time > gap_threshold

\* C2: merging the returned list again with the same threshold returns the
\* same segments in the same order.
C2_MergeIdempotent ==
    (pc = "returned" /\ calls = 2) => result = first_result

\* C3: every reordering of the input list merges to the same sequence of
\* (start_time, end_time, confidence).
C3_OrderIndependent ==
    (pc = "returned" /\ calls = 1) =>
        \A p \in Reorderings(segments) :
            LET m == MergeAdjacentSegments(p, gap_threshold)
            IN  ~m.raised /\ Timing(m.result) = Timing(result)

\* C4: when the loop combines `current` with a segment that starts later, the
\* new end_time is the larger of the two end times.
C4_EndTimeIsMax ==
    [][(Combines /\ sorted_segs[idx].start_time > current.start_time) =>
          current'.end_time =
              Max(current.end_time, sorted_segs[idx].end_time)]_vars

Scenario(l) ==
    << AudioSegment(0, 1000, l, 8000),
       AudioSegment(1300, 2000, l, 9000),
       AudioSegment(2000, 3000, l, 7000) >>

ScenarioMerged ==
    /\ \E l \in Labels : segments = Scenario(l)
    /\ gap_threshold = 500
    /\ calls = 1
    /\ pc = "returned"

C7_EmptyAndSingleton ==
    /\ (pc = "returned" /\ Len(segments) <= 1) => result = segments
    /\ pc = "raised" => Len(segments) >= 2

C7_Witness ==
    /\ pc = "returned"
    /\ calls = 1
    /\ Len(segments) = 1
    /\ duration(segments[1]) = 0
    /\ result = segments

\* C8: merge_adjacent_segments never fails with a division by zero; two
\* zero-duration segments within the gap threshold are combined.
C8_NoDivisionByZero ==
    pc # "raised"

\* The label-specific minimum duration of the configuration.
LabelMinimum(cfg, label) ==
    CASE label = "silence"    -> cfg.MIN_SILENCE_DURATION
      [] label = "speech"     -> cfg.MIN_SPEECH_DURATION
      [] label = "music"      -> cfg.MIN_MUSIC_DURATION
      [] label = "background" -> cfg.MIN_BACKGROUND_DURATION

\* C9: no segment returned by detect, whatever the detector, is shorter than
\* the larger of the label's minimum duration and
\* NON_VOICE_DURATION_THRESHOLD.
C9_EffectiveMinimum ==
    outcome = "returned" =>
        \A i \in 1..Len(detected) :
            duration(detected[i]) >=
                Max(LabelMinimum(config, detector.label),
                    config.NON_VOICE_DURATION_THRESHOLD)

\* C10: a call of detect on a disabled detector returns the empty list
\* without calling _detect; on an enabled detector (set back to enabled or
\* never disabled) it calls _detect.
C10_DisabledSkipsDetect ==
    [][detect_calls' = detect_calls + 1 =>
          IF detector.enabled
          THEN FrameSize(detector) # 0 => inner_calls' = inner_calls + 1
          ELSE /\ inner_calls' = inner_calls
               /\ outcome' = "returned"
               /\ detected' = <<>>
      ]_vars

\* C10 witness: three calls of detect of which one, made while the detector
\* was disabled, did not reach _detect, the last one made after the detector
\* was enabled again and returning segments.
C10_Witness ==
    /\ detect_calls = 3
    /\ inner_calls = 2
    /\ detector.enabled
    /\ outcome = "returned"
    /\ detected # <<>>

\* C11: a call of detect on an enabled detector with a buffer of an odd
\* number of bytes raises ValueError, returns no segment, and has handed no
\* frame to a scorer nor called the voice-activity model.
C11_OddLengthRejected ==
    [][(/\ detect_calls' = detect_calls + 1
        /\ detector.enabled
        /\ AudioLen(detector, audio) % 2 = 1) =>
          /\ outcome' = "ValueError"
          /\ detected' = <<>>
          /\ scored' = 0
      ]_vars

\* C11 witness: the music detector has refused a buffer of whole frames and
\* one more byte.
C11_Witness ==
    /\ detector.label = "music"
    /\ detector.enabled
    /\ detect_calls >= 1
    /\ inner_calls >= 1
    /\ Len(audio.frames) >= 2
    /\ audio.tail = 1
    /\ outcome = "ValueError"
    /\ scored = 0

\* C12: with a frame size n > 0, the i-th frame yielded (from 0) is bytes
\* i*n to (i+1)*n - 1 of the buffer, no frame reaches past the end of the
\* buffer, and once the generator is exhausted floor(L / n) frames have been
\* yielded.
C12_WholeFramesInOrder ==
    FrameSize(detector) > 0 =>
        /\ \A i \in 1..Len(yielded) :
              /\ yielded[i].lo = (i - 1) * FrameSize(detector)
              /\ yielded[i].hi = i * FrameSize(detector)
              /\ yielded[i].hi <= AudioLen(detector, audio)
        /\ fg_pc = "done" =>
              Len(yielded) = AudioLen(detector, audio) \div FrameSize(detector)

\* C12 witness: three frames were yielded and a remainder of two bytes, less
\* than a frame, was left.
C12_Witness ==
    /\ fg_pc = "done"
    /\ FrameSize(detector) > 2
    /\ Len(yielded) = 3
    /\ AudioLen(detector, audio) = 3 * FrameSize(detector) + 2

\* C13: for positive sample_rate and frame_duration_ms the frame size is
\* round(sample_rate * frame_duration_ms / 1000) * 2 bytes.
C13_FrameSizeRounded ==
    (detector.sample_rate > 0 /\ detector.frame_duration_ms > 0) =>
        FrameSize(detector) =
            2 * RoundHalfEven(detector.sample_rate * detector.frame_duration_ms,
                              1000)

\* start_time st (ms) is the rounding to 3 decimals of the time of byte
\* offset off: off / (sample_rate * 2) s.
IsRoundedTime(self, st, off) ==
    /\ 2 * (st * self.sample_rate * 2 - off * 1000) <= self.sample_rate * 2
    /\ 2 * (off * 1000 - st * self.sample_rate * 2) <= self.sample_rate * 2

\* C14 as stated: with a nonzero frame size the start times begin at 0, each
\* is the time of its byte offset rounded to 3 decimals, and each is greater
\* than the one before.
C14_StartTimesStrict ==
    FrameSize(detector) > 0 =>
        \A i \in 1..Len(yielded) :
            /\ i = 1 => yielded[i].start_time = 0
            /\ IsRoundedTime(detector, yielded[i].start_time, yielded[i].lo)
            /\ i > 1 => yielded[i - 1].start_time < yielded[i].start_time

\* C14 amended: with a nonzero frame size the start times begin at 0, each
\* is the time of its byte offset rounded to 3 decimals, and they never
\* decrease; they increase strictly when a frame lasts at least 1 ms.
C14_StartTimesMonotone ==
    FrameSize(detector) > 0 =>
        \A i \in 1..Len(yielded) :
            /\ i = 1 => yielded[i].start_time = 0
            /\ IsRoundedTime(detector, yielded[i].start_time, yielded[i].lo)
            /\ i > 1 =>
                  /\ yielded[i - 1].start_time <= yielded[i].start_time
                  /\ FrameSize(detector) * 1000 >= detector.sample_rate * 2 =>
                        yielded[i - 1].start_time < yielded[i].start_time

\* C14 witness: two consecutive frames were yielded with the same start time.
C14_Witness ==
    /\ Len(yielded) >= 3
    /\ yielded[3].start_time = yielded[2].start_time

\* C15: detect of a frame-based detector on an even, non-empty buffer that
\* is shorter than one frame, or under a frame size of 0, returns the empty
\* list and raises nothing.
C15_DegenerateIsEmpty ==
    (/\ detect_calls >= 1
     /\ AudioLen(detector, audio) > 0
     /\ AudioLen(detector, audio) % 2 = 0
     /\ \/ FrameSize(detector) = 0
        \/ AudioLen(detector, audio) < FrameSize(detector)) =>
        /\ outcome = "returned"
        /\ detected = <<>>

\* C18: detect of the silence detector on the all-zero buffer of one second
\* at the configured sample rate returns one segment, labelled silence, from
\* 0.0 to 1.0 with a confidence above 0.9.
C18_OneSecondOfSilence ==
    (/\ detector.label = "silence"
     /\ detect_calls >= 1
     /\ AudioLen(detector, audio) = 2 * config.SAMPLE_RATE) =>
        /\ outcome = "returned"
        /\ Len(detected) = 1
        /\ detected[1].label = "silence"
        /\ detected[1].start_time = 0
        /\ detected[1].end_time = 1000
        /\ detected[1].confidence > 9000

\* C16: every segment returned by detect, whatever the detector, has a
\* confidence between 0 and 1.
C16_ConfidenceBounds ==
    outcome = "returned" =>
        \A i \in 1..Len(detected) :
            /\ detected[i].confidence >= 0
            /\ detected[i].confidence <= 10000

\* C16 witness: the silence detector returned one segment merged from a run
\* of zeros (confidence 1.0) and a run of faint frames (confidence 0.2).
C16_Witness ==
    /\ detector.label = "silence"
    /\ outcome = "returned"
    /\ Len(detected) = 1
    /\ detected[1].confidence > 2000
    /\ detected[1].confidence < 10000

\* The threshold the configuration gives to a frame-scoring detector.
ScoreThreshold(cfg, label) ==
    IF label = "music" THEN cfg.MUSIC_THRESHOLD ELSE cfg.BACKGROUND_THRESHOLD

\* C17 as stated: every segment returned by the music detector or by the
\* background detector has a confidence greater than the detector's
\* threshold.
C17_AboveThreshold ==
    (outcome = "returned" /\ detector.label \in {"music", "background"}) =>
        \A i \in 1..Len(detected) :
            detected[i].confidence > ScoreThreshold(config, detector.label)

\* C17 amended: every segment returned by the music detector or by the
\* background detector has a confidence greater than or equal to the
\* detector's threshold (a multiple of 0.001).
C17_AtLeastThreshold ==
    (outcome = "returned" /\ detector.label \in {"music", "background"}) =>
        \A i \in 1..Len(detected) :
            detected[i].confidence >= ScoreThreshold(config, detector.label)

\* C17 witness: the music detector returned a segment, merged from two, whose
\* confidence was rounded to the threshold.
C17_Witness ==
    /\ detector.label = "music"
    /\ outcome = "returned"
    /\ Len(detected) = 1
    /\ detected[1].confidence = config.MUSIC_THRESHOLD
    /\ duration(detected[1]) > 2000

\* A frame of this kind is silence for the silence detector.
IsSilentKind(self, kind) == calculate_db(kind) < self.threshold

\* The frames of the buffer are a silent frames, then loud frames, then c
\* silent frames (a, c >= 1, at least one loud frame).
TwoSilentRuns(self, frames, a, c) ==
    /\ a >= 1
    /\ c >= 1
    /\ a + c < Len(frames)
    /\ \A i \in 1..Len(frames) :
          IsSilentKind(self, frames[i]) <=> (i <= a \/ i > Len(frames) - c)

\* The silence detector returned one segment from the start of the buffer to
\* the end of its last run (the last whole frame, or the end of the buffer).
OneSpanningSegment ==
    /\ outcome = "returned"
    /\ Len(detected) = 1
    /\ detected[1].start_time = 0
    /\ detected[1].end_time >= Len(audio.frames) * detector.frame_duration_ms
    /\ detected[1].end_time * detector.sample_rate * 2
          <= AudioLen(detector, audio) * 1000

\* The silence detector returned one segment for each of the two runs.
TwoRunSegments(a, c) ==
    /\ outcome = "returned"
    /\ Len(detected) = 2
    /\ detected[1].start_time = 0
    /\ detected[1].end_time = a * detector.frame_duration_ms
    /\ detected[2].start_time =
          (Len(audio.frames) - c) * detector.frame_duration_ms
    /\ detected[2].end_time >= Len(audio.frames) * detector.frame_duration_ms

\* The lengths a of a silent run that begins the buffer and is followed by a
\* loud frame, and the lengths c of a silent run that ends it and follows a
\* loud frame.
LeadingRuns(self, frames) ==
    { a \in 1..(Len(frames) - 1) :
        /\ IsSilentKind(self, frames[a])
        /\ ~IsSilentKind(self, frames[a + 1])
        /\ \A i \in 1..a : IsSilentKind(self, frames[i]) }

TrailingRuns(self, frames) ==
    { c \in 1..(Len(frames) - 1) :
        /\ IsSilentKind(self, frames[Len(frames) - c + 1])
        /\ ~IsSilentKind(self, frames[Len(frames) - c])
        /\ \A i \in (Len(frames) - c + 1)..Len(frames) :
              IsSilentKind(self, frames[i]) }

\* C19 as stated: two silent runs of any lengths separated by a loud stretch
\* no longer than GAP_MERGE_THRESHOLD are returned as one segment spanning
\* both; separated by a longer stretch they are returned as two segments.
C19_SilentRunsMerged ==
    (detector.label = "silence" /\ outcome # "none") =>
        \A a \in LeadingRuns(detector, audio.frames) :
        \A c \in TrailingRuns(detector, audio.frames) :
            TwoSilentRuns(detector, audio.frames, a, c) =>
                IF (Len(audio.frames) - a - c) * detector.frame_duration_ms
                       <= config.GAP_MERGE_THRESHOLD
                THEN OneSpanningSegment
                ELSE TwoRunSegments(a, c)

\* C20: every segment returned by the silence detector starts at 0 or later
\* and ends no later than the end of the buffer,
\* len(audio_bytes) / (2 * sample_rate).
C20_WithinTheAudio ==
    (detector.label = "silence" /\ outcome = "returned") =>
        \A i \in 1..Len(detected) :
            /\ detected[i].start_time >= 0
            /\ detected[i].end_time * detector.sample_rate * 2
                  <= AudioLen(detector, audio) * 1000

\* C21: a call of process_audio with a sample_rate other than 8000 and 16000
\* does not fail in its resampling step and goes on to call the detectors.
C21_ResampledAndProcessed ==
    (pa_pc = "done" /\ sample_rate \notin VadRates) =>
        /\ pa_outcome # "NameError"
        /\ ran # <<>>

\* C22: identify_movie_segments never combines a speech segment with a music
\* segment: every speech segment of the pipeline lies in a movie segment of
\* type speech and every music segment in one of type music.
C22_SpeechAndMusicApart ==
    movie_outcome = "returned" =>
        \A l \in {"speech", "music"} :
            \A i \in 1..Len(results[l]) :
                \E k \in 1..Len(movie_segments) :
                    /\ movie_segments[k].type = l
                    /\ movie_segments[k].start_time <= results[l][i].start_time
                    /\ results[l][i].end_time <= movie_segments[k].end_time

\* detect of the detector of label l raises on this buffer whatever the
\* voice-activity model answers.
RaisesAlways(l) ==
    Detect(pipeline[l], config, audio, <<>>, FALSE).raised # "none"

\* C26: process_audio calls the detectors in the order silence, speech,
\* music, background; an exception of a detector ends the call with that
\* exception, no detector is called after it and no mapping is returned; the
\* call returns only when the four calls have returned.
C26_DetectorErrorIsFatal ==
    /\ [](/\ Len(ran) <= Len(DetectOrder)
          /\ \A i \in 1..Len(ran) : ran[i] = DetectOrder[i]
          /\ pa_outcome = "returned" =>
                /\ ran = DetectOrder
                /\ \A l \in DetectorLabels : ~RaisesAlways(l)
          /\ \A i \in 1..Len(ran) :
                RaisesAlways(ran[i]) =>
                    /\ Len(ran) = i
                    /\ pa_pc = "done"
                    /\ pa_outcome =
                         Detect(pipeline[ran[i]], config, audio, <<>>, FALSE).raised
          /\ pa_outcome \notin {"none", "returned"} =>
                /\ pa_pc = "done"
                /\ results = NoResults
                /\ movie_outcome = "none")
    /\ [][pa_outcome \notin {"none", "returned"} =>
             /\ ran' = ran
             /\ results' = results
             /\ pa_outcome' = pa_outcome]_vars

\* C26 witness: the silence detector returned a segment, then the speech
\* detector raised, and process_audio ended with that error, the other two
\* detectors not called and nothing returned.
C26_Witness ==
    /\ pa_pc = "done"
    /\ pa_outcome = "ValueError"
    /\ ran = <<"silence", "speech">>
    /\ segments_of["silence"] # <<>>
    /\ results = NoResults

\* Frame f of the buffer begins a run of frames that are silence (label
\* "silence") or music (label "music") for the pipeline's detector.
BeginsRun(l, f) ==
    LET passes(kind) ==
            IF l = "silence" THEN calculate_db(kind) < pipeline[l].threshold
            ELSE FrameScore(l, kind) > pipeline[l].threshold
    IN  /\ passes(audio.frames[f])
        /\ f > 1 => ~passes(audio.frames[f - 1])

\* C30: the start time of every silence, music and speech segment returned by
\* process_audio is k / r for a sample index k at which a run of frames, or a
\* span of the voice-activity model, begins, r being the sample_rate argument
\* (8000 or 16000, the buffer being passed on as it is).
C30_TimedAtBufferRate ==
    pa_outcome = "returned" =>
        /\ \A l \in {"silence", "music"} :
              \A i \in 1..Len(results[l]) :
                 \E f \in 1..Len(audio.frames) :
                    /\ BeginsRun(l, f)
                    /\ results[l][i].start_time * sample_rate =
                         (f - 1) * (FrameSize(pipeline[l]) \div 2) * 1000
        /\ \A i \in 1..Len(results["speech"]) :
              \E j \in 1..Len(vad_timestamps) :
                 results["speech"][i].start_time * sample_rate =
                     vad_timestamps[j].start * 1000

\* C29: for every non-empty buffer with an even number of bytes, frames made
\* only of the sample -32768 included, detect of the enabled silence detector
\* returns a list and raises nothing; when it does raise, no frame had been
\* handed to _calculate_db.
C29_EvenBufferAccepted ==
    (/\ detector.label = "silence"
     /\ detector.enabled
     /\ outcome # "none") =>
        /\ (/\ AudioLen(detector, audio) > 0
            /\ AudioLen(detector, audio) % 2 = 0) => outcome = "returned"
        /\ outcome # "returned" => scored = 0

\* C25: for non-overlapping segments sorted by start, each starting at most g
\* after the end of its predecessor, merge_adjacent_segments returns exactly
\* one segment, from the first start_time to the last end_time.
C25_ChainMergesToOne ==
    (/\ pc \in {"returned", "raised"}
     /\ calls = 1
     /\ segments # <<>>
     /\ \A i \in 1..(Len(segments) - 1) :
           /\ segments[i].start_time <= segments[i + 1].start_time
           /\ segments[i].end_time <= segments[i + 1].start_time
           /\ segments[i + 1].start_time - segments[i].end_time <= gap_threshold) =>
        /\ pc = "returned"
        /\ Len(result) = 1
        /\ result[1].start_time = segments[1].start_time
        /\ result[1].end_time = segments[Len(segments)].end_time

\* C27: the speech detector discards every span of the voice-activity model
\* shorter than MIN_SPEECH_DURATION before merging, turns each other span
\* into a segment with confidence min(1.0, duration / MIN_SPEECH_DURATION),
\* and so every segment it holds before the merge and every segment it
\* returns has confidence exactly 1.0.
C27_SpeechConfidenceIsOne ==
    (detector.label = "speech" /\ outcome = "returned" /\ scored = 1) =>
        LET minimum     == config.MIN_SPEECH_DURATION
            start_ms(ts) == (ts.start * 1000) \div detector.sample_rate
            end_ms(ts)   == (ts.end * 1000) \div detector.sample_rate
            Survives(ts) == end_ms(ts) - start_ms(ts) >= minimum
            kept        == SelectSeq(vad_timestamps, Survives)
        IN  /\ Len(built) = Len(kept)
            /\ \A i \in 1..Len(built) :
                  /\ built[i].start_time = start_ms(kept[i])
                  /\ built[i].end_time = end_ms(kept[i])
                  /\ built[i].confidence =
                        Min(10000, (duration(built[i]) * 10000) \div minimum)
                  /\ built[i].confidence = 10000
            /\ \A i \in 1..Len(detected) : detected[i].confidence = 10000

\* C27 witness: the model returned a span of 0.25 s and a span of 1.0 s; the
\* first was discarded and the second returned with confidence 1.0.
C27_Witness ==
    /\ detector.label = "speech"
    /\ outcome = "returned"
    /\ Len(vad_timestamps) = 2
    /\ vad_timestamps[1].end - vad_timestamps[1].start = 4000
    /\ Len(built) = 1
    /\ detected = << AudioSegment(500, 1500, "speech", 10000) >>

\* The score that the detector's loop gives a frame: the confidence it would
\* open a segment with.
FrameConfidence(self, kind) ==
    IF self.label = "silence" THEN SilenceConfidence(self, calculate_db(kind))
    ELSE FrameScore(self.label, kind)

\* The frame passes the threshold test of the detector's loop.
FramePasses(self, kind) ==
    IF self.label = "silence" THEN calculate_db(kind) < self.threshold
    ELSE FrameScore(self.label, kind) > self.threshold

\* The frames of the buffer that begin inside the segment.
AbsorbedFrames(seg) ==
    LET frames == frame_generator(detector, audio)
    IN  { f \in 1..Len(frames) :
            /\ seg.start_time <= frames[f].start_time
            /\ frames[f].start_time < seg.end_time }

\* The confidence after frames i..j under the rule "the first frame's score,
\* then (old confidence + new frame score) / 2 for every further frame".
RECURSIVE RollingAverage(_, _)
RollingAverage(i, j) ==
    IF j <= i THEN FrameConfidence(detector, audio.frames[i])
    ELSE (RollingAverage(i, j - 1)
            + FrameConfidence(detector, audio.frames[j])) \div 2

\* The segment, which absorbed the frames fs, ends where the last of them
\* ends.
EndsWithLastFrame(seg, fs) ==
    \E f \in fs :
        /\ \A g \in fs : g <= f
        /\ seg.end_time = frame_generator(detector, audio)[f].start_time
                             + detector.frame_duration_ms

\* Every absorbed frame passes the threshold test, and the confidence lies
\* between the least and the greatest of their scores.
ExtendedByFrames(seg, fs) ==
    /\ fs # {}
    /\ \A f \in fs : FramePasses(detector, audio.frames[f])
    /\ \E f \in fs : FrameConfidence(detector, audio.frames[f]) <= seg.confidence
    /\ \E f \in fs : FrameConfidence(detector, audio.frames[f]) >= seg.confidence

\* The confidence of the segment is the rolling average over its frames.
RollingConfidence(seg, fs) ==
    LET i == CHOOSE f \in fs : \A g \in fs : f <= g
        j == CHOOSE f \in fs : \A g \in fs : g <= f
    IN  seg.confidence = RollingAverage(i, j)

\* The confidence of the segment is the score of the frame that opened it.
OpeningConfidence(seg, fs) ==
    LET i == CHOOSE f \in fs : \A g \in fs : f <= g
    IN  seg.confidence = FrameConfidence(detector, audio.frames[i])

\* The segment's end_time is the one the frame loop gave it: the silence
\* detector sets the end_time of a segment still open after the loop again
\* ("# Handle last segment").
EndSetByLoop(k) == detector.label # "silence" \/ k < Len(built)

\* The frame loop of a frame-based detector has run to the end and its
\* segments are in `built`.
LoopHasRun ==
    /\ detector.label \in FrameDetectorLabels
    /\ outcome = "returned"
    /\ scored > 0

\* C23 as stated: in the silence, music and background detectors a frame that
\* extends an open segment sets its end_time to the frame's end and its
\* confidence to (old confidence + new frame score) / 2, so the confidence
\* lies between the least and the greatest score absorbed.
C23_RollingAverage ==
    LoopHasRun =>
        \A k \in 1..Len(built) :
            LET fs == AbsorbedFrames(built[k])
            IN  /\ ExtendedByFrames(built[k], fs)
                /\ EndSetByLoop(k) => EndsWithLastFrame(built[k], fs)
                /\ RollingConfidence(built[k], fs)

\* C23 amended: the same for the music and background detectors; in the
\* silence detector the extension sets end_time only and the confidence stays
\* the score of the frame that opened the segment.
C23_RollingAverageButSilence ==
    LoopHasRun =>
        \A k \in 1..Len(built) :
            LET fs == AbsorbedFrames(built[k])
            IN  /\ ExtendedByFrames(built[k], fs)
                /\ EndSetByLoop(k) => EndsWithLastFrame(built[k], fs)
                /\ IF detector.label = "silence"
                   THEN OpeningConfidence(built[k], fs)
                   ELSE RollingConfidence(built[k], fs)

\* C23 witness: the music detector built a segment from frames of two
\* different scores, its confidence strictly between them.
C23_Witness ==
    /\ detector.label = "music"
    /\ outcome = "returned"
    /\ \E k \in 1..Len(built) :
          /\ \E f \in AbsorbedFrames(built[k]) :
                FrameConfidence(detector, audio.frames[f]) < built[k].confidence
          /\ \E f \in AbsorbedFrames(built[k]) :
                FrameConfidence(detector, audio.frames[f]) > built[k].confidence

\* The last frame of the run of passing frames that frame i belongs to.
RECURSIVE RunEnd(_)
RunEnd(i) ==
    IF \/ i >= Len(frame_generator(detector, audio))
       \/ ~FramePasses(detector, audio.frames[i + 1])
    THEN i
    ELSE RunEnd(i + 1)

\* The candidate segments of the buffer, each as the set of its frames: the
\* maximal runs of frames that pass the threshold test.
Candidates ==
    { i..RunEnd(i) :
        i \in { f \in 1..Len(frame_generator(detector, audio)) :
                  /\ FramePasses(detector, audio.frames[f])
                  /\ f > 1 => ~FramePasses(detector, audio.frames[f - 1]) } }

\* The candidate lasts at least the detector's minimum duration.
Qualifies(run) ==
    Cardinality(run) * detector.frame_duration_ms >= detector.min_duration

\* C24: a candidate segment is in the list a frame-based detector holds
\* before its final merge if and only if it was closed, by a frame below the
\* threshold or by the end of the buffer, with a duration of at least the
\* detector's minimum; no other segment, and no part of a candidate, is in
\* the list.
C24_FinalizedIffQualified ==
    (detector.label \in FrameDetectorLabels /\ outcome = "returned") =>
        /\ \A run \in Candidates :
              Qualifies(run) <=>
                  \E k \in 1..Len(built) : AbsorbedFrames(built[k]) = run
        /\ \A k \in 1..Len(built) :
              /\ AbsorbedFrames(built[k]) \in Candidates
              /\ \E f \in AbsorbedFrames(built[k]) :
                    built[k].start_time =
                        frame_generator(detector, audio)[f].start_time

\* Every segment of the list ends no earlier than it starts.
WellFormed(s) == \A i \in 1..Len(s) : s[i].end_time >= s[i].start_time

\* The list is in chronological order and no two of its segments overlap.
Chronological(s) ==
    \A i \in 1..Len(s) : \A j \in (i + 1)..Len(s) :
        /\ s[i].start_time <= s[j].start_time
        /\ s[i].end_time <= s[j].start_time

\* Every segment of `out` starts where a segment of `inp` starts, and the
\* first of them where the earliest segment of `inp` starts.
StartsKept(out, inp) ==
    /\ \A k \in 1..Len(out) :
          \E i \in 1..Len(inp) : inp[i].start_time = out[k].start_time
    /\ \A i \in 1..Len(inp) :
          out # <<>> /\ out[1].start_time <= inp[i].start_time

\* C28: when every input segment has end_time >= start_time, every segment
\* returned by merge_adjacent_segments, built by a detector's loop or returned
\* by a detector has end_time >= start_time and starts where the earliest
\* segment absorbed into it starts, and the segments of one list are in
\* chronological order and do not overlap.
C28_SegmentInvariant ==
    /\ []((pc = "returned" /\ WellFormed(segments)) =>
             /\ WellFormed(result)
             /\ Chronological(result)
             /\ StartsKept(result, segments))
    /\ [](outcome = "returned" =>
             /\ WellFormed(built)
             /\ Chronological(built)
             /\ WellFormed(detected)
             /\ Chronological(detected)
             /\ StartsKept(detected, built))
    /\ [][Combines =>
             /\ current'.start_time = current.start_time
             /\ current.start_time <= sorted_segs[idx].start_time
             /\ current'.end_time >= current'.start_time]_vars

\* C28 witness: three segments given out of order, one of them containing
\* another, were returned as one segment that starts where the earliest
\* starts.
C28_Witness ==
    /\ pc = "returned"
    /\ calls = 1
    /\ Len(segments) = 3
    /\ segments[1].start_time > segments[2].start_time
    /\ \E i \in 1..3 : \E j \in 1..3 :
          /\ segments[i].start_time < segments[j].start_time
          /\ segments[j].end_time < segments[i].end_time
    /\ Len(result) = 1
    /\ result[1].start_time = 0

====
